---- MODULE Spec2Model ----
(***************************************************************************)
(* A model of shap.models.TeacherForcing (src/shap/models/                  *)
(* _teacher_forcing.py): the target cache, the sequence encoder, the two    *)
(* alignment strategies, the forward pass adapter, the log-odds converter   *)
(* and the batch driver.                                                    *)
(*                                                                          *)
(* Arrays are records [dtype, n, m, data]: an integer matrix of n rows and  *)
(* m columns, or (dtype "str") a vector of n sentences, each a sequence of  *)
(* word ids.  A logit is kept symbolically as the place it was computed     *)
(* for, [row, pos]; a log-odds value as [row, pos, col].                    *)
(***************************************************************************)
EXTENDS Integers, Sequences, FiniteSets, TLC

VARIABLES
    config,                 \* similarity_model.config
    similarity_model_type,  \* "pt" | "tf"
    device,                 \* None | a device string
    model_agnostic,         \* whether inner_model produces the sentences
    batch_size,
    tokenizer,              \* similarity_tokenizer's special-token counts
    padding_side,           \* similarity_tokenizer.padding_side
    output,                 \* self.output: the array the cache refers to
    output_names,           \* self.output_names
    pc,                     \* the position of the operation in hand
    X, Y,                   \* the arguments of the running / last __call__
    start_batch_idx,
    output_batch,
    inputs,                 \* the tokenized source of the chunk in hand
    output_ids,             \* the decoder ids of the chunk in hand
    logits,                 \* the teacher forced logits of the chunk in hand
    ret,                    \* how the last operation ended
    obs,                    \* what the forward pass was handed in this call
    hist                    \* the targets update_output_names has been given

vars == <<config, similarity_model_type, device, model_agnostic, batch_size,
          tokenizer, padding_side, output, output_names, pc, X, Y,
          start_batch_idx, output_batch, inputs, output_ids, logits, ret, obs,
          hist>>

selfVars == <<config, similarity_model_type, device, model_agnostic,
              batch_size, tokenizer>>

frameVars == <<pc, X, Y, start_batch_idx, output_batch, inputs, output_ids,
               logits>>

(***************************************************************************)
(* Bounds of the model.                                                     *)
(***************************************************************************)
MaxRows == 2
MaxSrc == 1
MaxTgt == 2

(***************************************************************************)
(* Values.                                                                  *)
(***************************************************************************)
None == "None"
Vocab == {5, 7}
Special == [bos |-> 1, eos |-> 2, pad |-> 0, src |-> 9]

\* An attribute of a config object: missing (hasattr is false), None, or an id.
AbsentAttr == [has |-> FALSE, null |-> TRUE, val |-> 0]
NullAttr == [has |-> TRUE, null |-> TRUE, val |-> 0]
IdAttr(v) == [has |-> TRUE, null |-> FALSE, val |-> v]

\* self.output and self.output_names before the first target is cached.
NoArray == [dtype |-> None, n |-> 0, m |-> 0, data |-> <<>>]
NoNames == <<None>>

Max2(a, b) == IF a >= b THEN a ELSE b

RECURSIVE MaxOf(_)
MaxOf(s) == IF s = <<>> THEN 0 ELSE Max2(Head(s), MaxOf(Tail(s)))

Rep(x, k) == [i \in 1..k |-> x]

\* Python's clipping of a slice bound against a length.
PyIndex(i, len) ==
    IF i < 0 THEN (IF i + len < 0 THEN 0 ELSE i + len)
    ELSE (IF i > len THEN len ELSE i)

\* s[lo:hi], 0-based, negative bounds counted from the end.
PySlice(s, lo, hi) ==
    LET a == PyIndex(lo, Len(s))
        b == PyIndex(hi, Len(s))
    IN  IF a < b THEN SubSeq(s, a + 1, b) ELSE <<>>

\* s[lo:], 0-based.
PySliceFrom(s, lo) == PySlice(s, lo, Len(s))

IntArray(rows, m) == [dtype |-> "int", n |-> Len(rows), m |-> m, data |-> rows]

StrArray(sentences) ==
    [dtype |-> "str", n |-> Len(sentences), m |-> -1, data |-> sentences]

\* A[lo:hi] along the first axis; the result is a view of A.
RowSlice(A, lo, hi) ==
    LET rows == PySlice(A.data, lo, hi)
    IN  [A EXCEPT !.n = Len(rows), !.data = rows]

\* np.array_equal: same shape and the same elements.
array_equal(a, b) ==
    /\ a.dtype = b.dtype
    /\ a.n = b.n
    /\ a.m = b.m
    /\ a.data = b.data

Ok(v) == [exc |-> "none", val |-> v]
Raise(e) == [exc |-> e, val |-> NoArray]

(***************************************************************************)
(* The tokenizer: a sentence becomes keep_prefix special tokens, its word   *)
(* ids and keep_suffix special tokens, padded to the longest of the batch   *)
(* on the side padding_side names.                                          *)
(***************************************************************************)
Encode(sentence, tok) ==
    Rep(Special.bos, tok.keep_prefix) \o sentence \o Rep(Special.eos, tok.keep_suffix)

Pad(row, width, side) ==
    IF side = "left" THEN Rep(Special.pad, width - Len(row)) \o row
    ELSE row \o Rep(Special.pad, width - Len(row))

TokenizeBatch(sentences, tok, side) ==
    LET enc == [i \in 1..Len(sentences) |-> Encode(sentences[i], tok)]
        width == MaxOf([i \in 1..Len(enc) |-> Len(enc[i])])
    IN  [i \in 1..Len(enc) |-> Pad(enc[i], width, side)]

parse_prefix_suffix_for_tokenizer(tok) ==
    [keep_prefix |-> tok.keep_prefix, keep_suffix |-> tok.keep_suffix]

TokenStr == (5 :> "five") @@ (7 :> "seven") @@ (0 :> "") @@ (1 :> "<s>")
            @@ (2 :> "</s>") @@ (9 :> "src")

\* similarity_tokenizer.decode([x]).strip()
Decode(x) == TokenStr[x]

(***************************************************************************)
(* get_outputs: the ids of a target array.                                  *)
(***************************************************************************)
get_outputs(A, tok, side) ==
    IF A.dtype = "str"
    THEN LET p == parse_prefix_suffix_for_tokenizer(tok)
             ids == TokenizeBatch(A.data, tok, side)
         IN  IF A.n = 0
             THEN Raise("IndexError")
             ELSE LET cut == [i \in 1..Len(ids) |->
                                 IF p.keep_suffix > 0
                                 THEN PySlice(ids[i], p.keep_prefix, 0 - p.keep_suffix)
                                 ELSE PySliceFrom(ids[i], p.keep_prefix)]
                  IN  Ok(IntArray(cut, Len(cut[1])))
    ELSE Ok(A)

(***************************************************************************)
(* get_output_names: the decoded tokens of the first row.                   *)
(***************************************************************************)
NamesOf(o) ==
    IF o.exc # "none" THEN [exc |-> o.exc, val |-> NoNames]
    ELSE IF o.val.n = 0 THEN [exc |-> "IndexError", val |-> NoNames]
    ELSE [exc |-> "none",
          val |-> [j \in 1..o.val.m |-> Decode(o.val.data[1][j])]]

get_output_names(A, tok, side) == NamesOf(get_outputs(A, tok, side))

(***************************************************************************)
(* update_output_names: the cache is replaced when it is empty or differs   *)
(* by value from the array given; self.output is assigned before            *)
(* get_output_names runs, so it stays assigned when that call raises.       *)
(***************************************************************************)
CacheStaleAlways(cached, target) == TRUE

CacheStale(cached, target) ==
    (cached = NoArray) \/ ~array_equal(cached, target)

update_output_names(cached, names, target, tok, side) ==
    IF CacheStale(cached, target)
    THEN LET r == get_output_names(target, tok, side)
         IN  [output |-> target,
              output_names |-> IF r.exc = "none" THEN r.val ELSE names,
              exc |-> r.exc,
              recomputed |-> 1]
    ELSE [output |-> cached, output_names |-> names, exc |-> "none",
          recomputed |-> 0]

\* hist: the target the last call of update_output_names was given, and
\* whether the caller has written into the cached array since.
NoHist == [target |-> NoArray, written |-> FALSE]

\* How a call of update_output_names relates to the call before it.
NoUpd == [relation |-> "none", in_a_row |-> FALSE, recomputed |-> 0,
          names_before |-> NoNames, target |-> NoArray]

UpdAfter(h, names, target, u) ==
    [relation |-> IF h.target = NoArray THEN "first"
                  ELSE IF array_equal(h.target, target) THEN "same"
                  ELSE "differs",
     in_a_row |-> (h.target # NoArray /\ ~h.written),
     recomputed |-> u.recomputed,
     names_before |-> names,
     target |-> target]

(***************************************************************************)
(* get_inputs: the source sentences of a chunk, tokenized and padded.  A    *)
(* row of X is known by its index in X and the number of tokens its         *)
(* sentence has.  fault names the collaborator that raises in this chunk.   *)
(***************************************************************************)
NoInputs == [rows |-> <<>>, n |-> 0, m |-> 0, input_ids |-> <<>>,
             attention_mask |-> <<>>]

PadWith(row, width, side, fill) ==
    IF side = "left" THEN Rep(fill, width - Len(row)) \o row
    ELSE row \o Rep(fill, width - Len(row))

Tokenized(Xb, side) ==
    LET S == MaxOf([i \in 1..Len(Xb) |-> Xb[i].len])
    IN  [rows |-> [i \in 1..Len(Xb) |-> Xb[i].row],
         n |-> Len(Xb),
         m |-> S,
         input_ids |-> [i \in 1..Len(Xb) |->
                           PadWith(Rep(Special.src, Xb[i].len), S, side, Special.pad)],
         attention_mask |-> [i \in 1..Len(Xb) |->
                           PadWith(Rep(1, Xb[i].len), S, side, 0)]]

RestoredSide(side) == "right"

get_inputs(Xb, side, agnostic, current_side, fault) ==
    IF agnostic /\ fault = "inner_model"
    THEN [exc |-> "ModelError", padding_side |-> current_side, inputs |-> NoInputs]
    ELSE IF fault = "tokenizer"
    THEN [exc |-> "TokenizerError", padding_side |-> side, inputs |-> NoInputs]
    ELSE [exc |-> "none", padding_side |-> RestoredSide(side),
          inputs |-> Tokenized(Xb, side)]

(***************************************************************************)
(* The forward pass of the wrapped model: one logit vector per row and      *)
(* position of the decoder's input.                                         *)
(***************************************************************************)
NoLogits == [n |-> 0, p |-> 0, data |-> <<>>]

NoArgs == [made |-> FALSE, rows |-> <<>>, input_ids |-> <<>>,
           attention_mask |-> <<>>, position_ids |-> <<>>,
           decoder_input_ids |-> <<>>]

Logits(rows, p) ==
    [n |-> Len(rows), p |-> p,
     data |-> [i \in 1..Len(rows) |->
                  [k \in 1..p |-> [row |-> rows[i], pos |-> k - 1]]]]

\* logits[:, lo:hi, :]
PositionSlice(L, lo, hi) ==
    LET cut == [i \in 1..L.n |-> PySlice(L.data[i], lo, hi)]
        idx == PySlice([k \in 1..L.p |-> k], lo, hi)
    IN  [n |-> L.n, p |-> Len(idx), data |-> cut]

Forward(args, is_encoder_decoder, fault) ==
    IF fault = "forward" THEN [exc |-> "RuntimeError", logits |-> NoLogits]
    ELSE IF is_encoder_decoder
    THEN IF Len(args.input_ids) # Len(args.decoder_input_ids)
         THEN [exc |-> "ShapeError", logits |-> NoLogits]
         ELSE [exc |-> "none",
               logits |-> Logits(args.rows,
                                 IF args.decoder_input_ids = <<>> THEN 0
                                 ELSE Len(args.decoder_input_ids[1]))]
    ELSE [exc |-> "none",
          logits |-> Logits(args.rows,
                            IF args.input_ids = <<>> THEN 0
                            ELSE Len(args.input_ids[1]))]

RECURSIVE CumSum(_)
CumSum(s) ==
    IF s = <<>> THEN <<>>
    ELSE LET front == CumSum(SubSeq(s, 1, Len(s) - 1))
         IN  Append(front, (IF front = <<>> THEN 0 ELSE front[Len(front)])
                           + s[Len(s)])

\* attention_mask.long().cumsum(-1) - 1
CumSumMinusOne(mask) == [k \in 1..Len(mask) |-> CumSum(mask)[k] - 1]

\* pt: position_ids.masked_fill_(attention_mask == 0, 0)
position_ids_pt_unfilled(mask) == CumSumMinusOne(mask)

position_ids_pt(mask) ==
    [k \in 1..Len(mask) |-> IF mask[k] = 0 THEN 0 ELSE CumSumMinusOne(mask)[k]]

\* tf: tf.where(attention_mask == 0, 0, position_ids)
position_ids_tf(mask) ==
    [k \in 1..Len(mask) |-> IF mask[k] = 0 THEN 0 ELSE CumSumMinusOne(mask)[k]]

\* The decoder-only arguments: source and target concatenated along columns.
DecoderOnlyArgs(in, ids, type) ==
    LET mask == [i \in 1..in.n |->
                    in.attention_mask[i] \o Rep(1, ids.m)]
    IN  [made |-> TRUE,
         rows |-> in.rows,
         input_ids |-> [i \in 1..in.n |->
                           in.input_ids[i] \o ids.data[i]],
         attention_mask |-> mask,
         position_ids |-> [i \in 1..in.n |->
                              IF type = "pt" THEN position_ids_pt(mask[i])
                              ELSE position_ids_tf(mask[i])],
         decoder_input_ids |-> <<>>]

\* torch.tensor(output_ids, dtype=torch.int64) and
\* tf.convert_to_tensor(output_ids, dtype=tf.int32): the ids, all integral and
\* far below 2^31, are kept; only the element type changes.
AsTensor(A, type) == [A EXCEPT !.dtype = IF type = "pt" THEN "int64" ELSE "int32"]

EncoderDecoderArgs(in, ids) ==
    [made |-> TRUE,
     rows |-> in.rows,
     input_ids |-> in.input_ids,
     attention_mask |-> in.attention_mask,
     position_ids |-> <<>>,
     decoder_input_ids |-> ids.data]

(***************************************************************************)
(* model_inference.  In the pt branch and in the tf branch without a        *)
(* device an exception of the forward pass leaves the function; in the tf   *)
(* branch with a device a RuntimeError is printed, and the read of          *)
(* outputs.logits that follows finds outputs unbound.                       *)
(***************************************************************************)
Inference(exc, L, args, forwards, logged, backend) ==
    [exc |-> exc, logits |-> L, args |-> args, forwards |-> forwards,
     logged |-> logged, backend |-> backend]

\* try: outputs = similarity_model(...) except RuntimeError: print(err)
Caught(type, dev, exc) == type = "tf" /\ dev # None /\ exc = "RuntimeError"

AfterForward(out, args, type, dev) ==
    IF out.exc = "none" THEN Inference("none", out.logits, args, 1, FALSE, "none")
    ELSE IF Caught(type, dev, out.exc)
    THEN Inference("UnboundLocalError", NoLogits, args, 1, TRUE, out.exc)
    ELSE Inference(out.exc, NoLogits, args, 1, FALSE, out.exc)

WithArgs(args, cfg, type, dev, fault) ==
    AfterForward(Forward(args, cfg.is_encoder_decoder, fault), args, type, dev)

model_inference(in, ids, cfg, type, dev, fault) ==
    IF cfg.is_encoder_decoder
    THEN WithArgs(EncoderDecoderArgs(in, AsTensor(ids, type)), cfg, type, dev, fault)
    ELSE IF in.n # ids.n
    THEN \* torch.cat / tf.concat of matrices with different row counts
         Inference(IF type = "pt" THEN "RuntimeError" ELSE "InvalidArgumentError",
                   NoLogits, NoArgs, 0, FALSE, "none")
    ELSE WithArgs(DecoderOnlyArgs(in, AsTensor(ids, type), type), cfg, type, dev,
                  fault)

(***************************************************************************)
(* The decoder start token: the first of config.decoder_start_token_id,     *)
(* config.bos_token_id and config.decoder.bos_token_id that is present and  *)
(* not None.                                                                *)
(***************************************************************************)
Present(attr) == attr.has /\ ~attr.null

StartId(exc, id) == [exc |-> exc, id |-> id]

decoder_start_token_id_bos_first(cfg) ==
    IF Present(cfg.bos_token_id) THEN StartId("none", cfg.bos_token_id.val)
    ELSE IF Present(cfg.decoder_start_token_id)
    THEN StartId("none", cfg.decoder_start_token_id.val)
    ELSE IF cfg.decoder.has /\ Present(cfg.decoder.bos_token_id)
    THEN StartId("none", cfg.decoder.bos_token_id.val)
    ELSE StartId("ValueError", 0)

decoder_start_token_id(cfg) ==
    IF Present(cfg.decoder_start_token_id)
    THEN StartId("none", cfg.decoder_start_token_id.val)
    ELSE IF Present(cfg.bos_token_id) THEN StartId("none", cfg.bos_token_id.val)
    ELSE IF cfg.decoder.has /\ Present(cfg.decoder.bos_token_id)
    THEN StartId("none", cfg.decoder.bos_token_id.val)
    ELSE StartId("ValueError", 0)

\* np.concatenate((np.ones((n, 1)) * start, output_ids), axis=-1): a float64
\* matrix holding the same integral values.
PrependStart(ids, start) ==
    [dtype |-> "float64", n |-> ids.n, m |-> ids.m + 1,
     data |-> [i \in 1..ids.n |-> <<start>> \o ids.data[i]]]

(***************************************************************************)
(* get_teacher_forced_logits, up to the call of model_inference: the        *)
(* target ids, the tokenized source and, for an encoder-decoder, the start  *)
(* token put before the target ids.                                         *)
(***************************************************************************)
NoIds == [dtype |-> "int", n |-> 0, m |-> 0, data |-> <<>>]

Encoded(exc, side, in, ids, T) ==
    [exc |-> exc, padding_side |-> side, inputs |-> in, output_ids |-> ids,
     T |-> T]

WithStart(st, gi, ids) ==
    IF st.exc # "none"
    THEN Encoded(st.exc, gi.padding_side, NoInputs, NoIds, ids.m)
    ELSE Encoded("none", gi.padding_side, gi.inputs, PrependStart(ids, st.id),
                 ids.m)

WithInputs(gi, ids, cfg) ==
    IF gi.exc # "none"
    THEN Encoded(gi.exc, gi.padding_side, NoInputs, NoIds, ids.m)
    ELSE IF cfg.is_encoder_decoder
    THEN WithStart(decoder_start_token_id(cfg), gi, ids)
    ELSE Encoded("none", gi.padding_side, gi.inputs, ids, ids.m)

SideFor(cfg) == IF cfg.is_encoder_decoder THEN "right" ELSE "left"

WithOutputs(o, Xb, cfg, agnostic, side, fault) ==
    IF o.exc # "none" THEN Encoded(o.exc, side, NoInputs, NoIds, 0)
    ELSE WithInputs(get_inputs(Xb, SideFor(cfg), agnostic, side, fault), o.val,
                    cfg)

teacher_forcing_inputs(Xb, Yb, cfg, agnostic, tok, side, fault) ==
    WithOutputs(get_outputs(Yb, tok, side), Xb, cfg, agnostic, side, fault)

(***************************************************************************)
(* get_teacher_forced_logits, after model_inference: the logits of the      *)
(* target positions, logits[:, :-1, :] for an encoder-decoder and           *)
(* logits[:, -T-1:-1, :] for a decoder.                                     *)
(***************************************************************************)
WindowFrom(T) == 0 - T - 1

teacher_forced_window(L, cfg, T) ==
    IF cfg.is_encoder_decoder THEN PositionSlice(L, 0, -1)
    ELSE PositionSlice(L, WindowFrom(T), -1)

(***************************************************************************)
(* get_logodds: per row, the log-odds at the pairs (position, target id)    *)
(* that logodds[:, range(P), output_ids] selects; numpy broadcasts the two  *)
(* index vectors, and np.apply_along_axis refuses an array with an empty    *)
(* iteration dimension.                                                     *)
(***************************************************************************)
NoLogodds == <<>>

Selected(L, ids) ==
    [i \in 1..L.n |->
        [k \in 1..(IF L.p = 1 THEN Len(ids) ELSE L.p) |->
            [row |-> L.data[i][IF L.p = 1 THEN 1 ELSE k].row,
             pos |-> L.data[i][IF L.p = 1 THEN 1 ELSE k].pos,
             col |-> ids[IF Len(ids) = 1 THEN 1 ELSE k]]]]

LogoddsFor(L, o) ==
    IF o.exc # "none" THEN [exc |-> o.exc, logodds |-> NoLogodds]
    ELSE IF o.val.n = 0 THEN [exc |-> "IndexError", logodds |-> NoLogodds]
    ELSE IF L.n = 0 \/ L.p = 0 THEN [exc |-> "ValueError", logodds |-> NoLogodds]
    ELSE IF L.p # o.val.m /\ L.p # 1 /\ o.val.m # 1
    THEN [exc |-> "IndexError", logodds |-> NoLogodds]
    ELSE [exc |-> "none", logodds |-> Selected(L, o.val.data[1])]

get_logodds(L, cached, tok, side) == LogoddsFor(L, get_outputs(cached, tok, side))

(***************************************************************************)
(* The inputs the operations are given.                                     *)
(***************************************************************************)
MaxBatch == 2

\* X: per row, the number of tokens of its sentence.
Xs == UNION {[1..n -> 0..MaxSrc] : n \in 0..MaxRows}

\* X with one token in every sentence.
PlainXs == {Rep(1, n) : n \in 0..MaxRows}

Targets == UNION {[1..t -> Vocab] : t \in 0..MaxTgt}

\* Y: n rows sharing one target, as ids or as sentences.
IntYs == {IntArray(Rep(t, n), Len(t)) : t \in Targets, n \in 0..MaxRows}

StrYs == {StrArray(Rep(t, n)) : t \in Targets, n \in 0..MaxRows}

XRows(Xa) == [i \in 1..Len(Xa) |-> [row |-> i, len |-> Xa[i]]]

NoBatch == [is_none |-> TRUE, data |-> <<>>]

NoObs == [forwards |-> 0, args |-> NoArgs, logged |-> FALSE, backend |-> "none",
          chunks |-> 0, rows |-> <<>>, S |-> 0, T |-> 0, logodds |-> NoLogodds]

Ended(op, status, exc) == [op |-> op, status |-> status, exc |-> exc, upd |-> NoUpd]

(***************************************************************************)
(* __call__, up to the loop: the cache is updated from Y[:1].               *)
(***************************************************************************)
Called(u, target) ==
    /\ output' = u.output
    /\ output_names' = u.output_names
    /\ hist' = [target |-> target, written |-> FALSE]
    /\ pc' = IF u.exc = "none" THEN "loop" ELSE "done"
    /\ ret' = IF u.exc = "none" THEN Ended("__call__", "running", "none")
              ELSE Ended("__call__", "raised", u.exc)

Call(Xa, Ya) ==
    /\ pc = "idle"
    /\ Called(update_output_names(output, output_names, RowSlice(Ya, 0, 1),
                                  tokenizer, padding_side),
              RowSlice(Ya, 0, 1))
    /\ X' = Xa
    /\ Y' = Ya
    /\ start_batch_idx' = 0
    /\ output_batch' = NoBatch
    /\ inputs' = NoInputs
    /\ output_ids' = NoIds
    /\ logits' = NoLogits
    /\ obs' = NoObs
    /\ UNCHANGED <<selfVars, padding_side>>

ChunkEnd(idx, size) == idx + size

(***************************************************************************)
(* A turn of the loop of __call__, in three steps.  First the chunk is      *)
(* cut from X and Y and get_teacher_forced_logits tokenizes it.             *)
(***************************************************************************)
Tokenized_(e, rows) ==
    /\ padding_side' = e.padding_side
    /\ inputs' = e.inputs
    /\ output_ids' = e.output_ids
    /\ obs' = [obs EXCEPT !.chunks = @ + 1, !.rows = rows, !.S = e.inputs.m,
                          !.T = e.T, !.args = NoArgs, !.logodds = NoLogodds]
    /\ pc' = IF e.exc = "none" THEN "inference" ELSE "done"
    /\ ret' = IF e.exc = "none" THEN ret ELSE Ended("__call__", "raised", e.exc)

Tokenize(fault) ==
    /\ pc = "loop"
    /\ start_batch_idx < Len(X)
    /\ fault = "inner_model" => model_agnostic
    /\ Tokenized_(teacher_forcing_inputs(
                      PySlice(XRows(X), start_batch_idx,
                              ChunkEnd(start_batch_idx, batch_size)),
                      RowSlice(Y, start_batch_idx,
                               ChunkEnd(start_batch_idx, batch_size)),
                      config, model_agnostic, tokenizer, padding_side, fault),
                  PySlice([i \in 1..Len(X) |-> i], start_batch_idx,
                          ChunkEnd(start_batch_idx, batch_size)))
    /\ UNCHANGED <<selfVars, output, output_names, X, Y, start_batch_idx,
                   output_batch, logits, hist>>

(***************************************************************************)
(* Then model_inference runs the forward pass and the logits of the target  *)
(* positions are cut out.                                                   *)
(***************************************************************************)
Inferred(mi) ==
    /\ logits' = IF mi.exc = "none"
                 THEN teacher_forced_window(mi.logits, config, obs.T)
                 ELSE NoLogits
    /\ obs' = [obs EXCEPT !.forwards = @ + mi.forwards, !.args = mi.args,
                          !.logged = mi.logged, !.backend = mi.backend]
    /\ pc' = IF mi.exc = "none" THEN "logodds" ELSE "done"
    /\ ret' = IF mi.exc = "none" THEN ret ELSE Ended("__call__", "raised", mi.exc)

Infer(fault) ==
    /\ pc = "inference"
    /\ Inferred(model_inference(inputs, output_ids, config, similarity_model_type,
                                device, fault))
    /\ UNCHANGED <<selfVars, padding_side, output, output_names, X, Y,
                   start_batch_idx, output_batch, inputs, output_ids, hist>>

(***************************************************************************)
(* Last get_logodds, the concatenation and the step of the index.           *)
(***************************************************************************)
\* np.concatenate((output_batch, logodds)): the column counts must agree.
Concatenate(batch, g) ==
    IF g.exc # "none" THEN [exc |-> g.exc, batch |-> batch]
    ELSE IF batch.is_none
    THEN [exc |-> "none", batch |-> [is_none |-> FALSE, data |-> g.logodds]]
    ELSE IF Len(batch.data[1]) # Len(g.logodds[1])
    THEN [exc |-> "ValueError", batch |-> batch]
    ELSE [exc |-> "none",
          batch |-> [is_none |-> FALSE, data |-> batch.data \o g.logodds]]

NextStartKept(idx, size) == idx

NextStart(idx, size) == idx + size

Scored(c, g) ==
    /\ output_batch' = c.batch
    /\ obs' = [obs EXCEPT !.logodds = g.logodds]
    /\ start_batch_idx' = IF c.exc = "none"
                          THEN NextStart(start_batch_idx, batch_size)
                          ELSE start_batch_idx
    /\ pc' = IF c.exc = "none" THEN "loop" ELSE "done"
    /\ ret' = IF c.exc = "none" THEN ret ELSE Ended("__call__", "raised", c.exc)

Score(g) == Scored(Concatenate(output_batch, g), g)

Logodds ==
    /\ pc = "logodds"
    /\ Score(get_logodds(logits, output, tokenizer, padding_side))
    /\ UNCHANGED <<selfVars, padding_side, output, output_names, X, Y, inputs,
                   output_ids, logits, hist>>

\* The loop has ended: output_batch is returned.
Return ==
    /\ pc = "loop"
    /\ ~(start_batch_idx < Len(X))
    /\ pc' = "done"
    /\ ret' = Ended("__call__", "returned", "none")
    /\ UNCHANGED <<selfVars, padding_side, output, output_names, X, Y,
                   start_batch_idx, output_batch, inputs, output_ids, logits,
                   obs, hist>>

(***************************************************************************)
(* The public methods called on their own.                                  *)
(***************************************************************************)
GotInputs(gi) ==
    /\ padding_side' = gi.padding_side
    /\ ret' = IF gi.exc = "none" THEN Ended("get_inputs", "returned", "none")
              ELSE Ended("get_inputs", "raised", gi.exc)

GetInputs(Xa, side, fault) ==
    /\ pc = "idle"
    /\ fault = "inner_model" => model_agnostic
    /\ GotInputs(get_inputs(XRows(Xa), side, model_agnostic, padding_side, fault))
    /\ pc' = "done"
    /\ UNCHANGED <<selfVars, output, output_names, X, Y, start_batch_idx,
                   output_batch, inputs, output_ids, logits, obs, hist>>

Updated(u, target) ==
    /\ output' = u.output
    /\ output_names' = u.output_names
    /\ hist' = [target |-> target, written |-> FALSE]
    /\ ret' = [op |-> "update_output_names",
               status |-> IF u.exc = "none" THEN "returned" ELSE "raised",
               exc |-> u.exc,
               upd |-> UpdAfter(hist, output_names, target, u)]

UpdateOutputNames(target) ==
    /\ pc = "idle"
    /\ Updated(update_output_names(output, output_names, target, tokenizer,
                                   padding_side), target)
    /\ pc' = "done"
    /\ UNCHANGED <<selfVars, padding_side, X, Y, start_batch_idx, output_batch,
                   inputs, output_ids, logits, obs>>

\* self.output = output keeps the caller's array, not a copy: an element the
\* caller assigns in that array afterwards is assigned in self.output.
WriteTarget(A) ==
    /\ pc = "idle"
    /\ output # NoArray
    /\ A.dtype = output.dtype /\ A.n = output.n /\ A.m = output.m
    /\ A # output
    /\ output' = A
    /\ hist' = [hist EXCEPT !.written = TRUE]
    /\ UNCHANGED <<selfVars, padding_side, output_names, frameVars, ret, obs>>

\* The operation has ended and its frame is gone; the instance and the
\* tokenizer keep their state.
Exit ==
    /\ pc = "done"
    /\ pc' = "idle"
    /\ X' = <<>>
    /\ Y' = IntArray(<<>>, 0)
    /\ start_batch_idx' = 0
    /\ output_batch' = NoBatch
    /\ inputs' = NoInputs
    /\ output_ids' = NoIds
    /\ logits' = NoLogits
    /\ obs' = NoObs
    /\ ret' = Ended("none", "returned", "none")
    /\ UNCHANGED <<selfVars, padding_side, output, output_names, hist>>

(***************************************************************************)
(* The state after __init__.                                                *)
(***************************************************************************)
Decoders == {[has |-> FALSE, bos_token_id |-> AbsentAttr]}
            \cup {[has |-> TRUE, bos_token_id |-> a] :
                      a \in {AbsentAttr, NullAttr, IdAttr(2)}}

Configs == [is_encoder_decoder : BOOLEAN,
            decoder_start_token_id : {AbsentAttr, NullAttr, IdAttr(0)},
            bos_token_id : {AbsentAttr, NullAttr, IdAttr(1)},
            decoder : Decoders]

\* A config with a bos_token_id alone, and one with no start token at all.
BosConfig(encdec) ==
    [is_encoder_decoder |-> encdec, decoder_start_token_id |-> AbsentAttr,
     bos_token_id |-> IdAttr(1),
     decoder |-> [has |-> FALSE, bos_token_id |-> AbsentAttr]]

BareConfig(encdec) == [BosConfig(encdec) EXCEPT !.bos_token_id = NullAttr]

TokenizerKinds == {[keep_prefix |-> 0, keep_suffix |-> 0],
                   [keep_prefix |-> 0, keep_suffix |-> 1],
                   [keep_prefix |-> 1, keep_suffix |-> 1]}

InitWith(cfgs, types, devices, agnostics, sizes, toks) ==
    /\ config \in cfgs
    /\ similarity_model_type \in types
    /\ device \in devices
    /\ model_agnostic \in agnostics
    /\ batch_size \in sizes
    /\ tokenizer \in toks
    /\ padding_side = "right"
    /\ output = NoArray
    /\ output_names = NoNames
    /\ pc = "idle"
    /\ X = <<>>
    /\ Y = IntArray(<<>>, 0)
    /\ start_batch_idx = 0
    /\ output_batch = NoBatch
    /\ inputs = NoInputs
    /\ output_ids = NoIds
    /\ logits = NoLogits
    /\ ret = Ended("none", "returned", "none")
    /\ obs = NoObs
    /\ hist = NoHist

\* The pairs of an X and a Y of as many rows.
EqualRows(xs, ys) == {c \in xs \X ys : Len(c[1]) = c[2].n}

\* __call__ on the pairs (X, Y) of calls and get_inputs on the inputs xs.
NextOn(calls, xs) ==
    \/ \E c \in calls : Call(c[1], c[2])
    \/ \E fault \in {"none", "inner_model", "tokenizer"} : Tokenize(fault)
    \/ \E fault \in {"none", "forward"} : Infer(fault)
    \/ Logodds
    \/ Return
    \/ \E Xa \in xs, side \in {"left", "right"},
          fault \in {"none", "inner_model", "tokenizer"} :
           GetInputs(Xa, side, fault)
    \/ Exit

(***************************************************************************)
(* Spec: both alignments, both backends, with and without a device, with    *)
(* and without a wrapped function, with every kind of tokenizer, on every   *)
(* X and Y of the bounds.                                                   *)
(***************************************************************************)
Init ==
    InitWith({BosConfig(e) : e \in BOOLEAN} \cup {BareConfig(TRUE)},
             {"pt", "tf"}, {None, "cuda"}, BOOLEAN, 1..MaxBatch, TokenizerKinds)

Next == NextOn(Xs \X (IntYs \cup StrYs), Xs)

Spec == Init /\ [][Next]_vars

(***************************************************************************)
(* SpecEncDec: the encoder-decoder alignment under every combination of     *)
(* the three start-token fields, on both backends, on X and target ids Y   *)
(* of as many rows.                                                        *)
(***************************************************************************)
InitEncDec ==
    InitWith({c \in Configs : c.is_encoder_decoder}, {"pt", "tf"}, {None},
             {FALSE}, 1..MaxBatch, {[keep_prefix |-> 1, keep_suffix |-> 1]})

NextEncDec == NextOn(EqualRows(PlainXs, IntYs), PlainXs)

SpecEncDec == InitEncDec /\ [][NextEncDec]_vars

(***************************************************************************)
(* SpecDecOnly: the decoder-only alignment on both backends, on sources of  *)
(* every length and padding and target ids of as many rows.                *)
(***************************************************************************)
InitDecOnly ==
    InitWith({BosConfig(FALSE)}, {"pt", "tf"}, {None}, {FALSE}, 1..MaxBatch,
             {[keep_prefix |-> 1, keep_suffix |-> 1]})

NextDecOnly == NextOn(EqualRows(Xs, IntYs), Xs)

SpecDecOnly == InitDecOnly /\ [][NextDecOnly]_vars

(***************************************************************************)
(* SpecCache: update_output_names called again and again on one instance    *)
(* with target ids, the caller writing into the array it passed in between. *)
(***************************************************************************)
InitCache ==
    InitWith({BosConfig(FALSE)}, {"pt"}, {None}, {FALSE}, {1},
             {[keep_prefix |-> 1, keep_suffix |-> 1]})

NextCache ==
    \/ \E A \in IntYs : UpdateOutputNames(A)
    \/ \E A \in IntYs : WriteTarget(A)
    \/ Exit

SpecCache == InitCache /\ [][NextCache]_vars

(***************************************************************************)
(* The claims.                                                              *)
(***************************************************************************)
CallEnded == pc = "done" /\ ret.op = "__call__"

\* C1: once get_inputs or __call__ has ended, by a return or by an exception
\* of the wrapped model or of the tokenizer, the tokenizer's padding_side is
\* "right".
C1_PaddingSideRestored ==
    (pc = "done" /\ ret.op \in {"get_inputs", "__call__"})
        => padding_side = "right"

\* C2: __call__ on X and Y of different lengths never returns a score array.
C2_MismatchNeverReturnsScores ==
    (CallEnded /\ Len(X) # Y.n)
        => ~(ret.status = "returned" /\ ~output_batch.is_none)

\* C3: a RuntimeError of the forward pass does not make model_inference, and
\* with it __call__, end in an exception.
C3_BackendFailureNotFatal ==
    obs.backend = "RuntimeError" => ~(CallEnded /\ ret.status = "raised")

\* C4: when __call__ returns on X and Y of equal length n >= 0, it returns an
\* array of n rows, row i holding the log-odds of row i of X.
C4_RowPerInput ==
    (CallEnded /\ ret.status = "returned" /\ Len(X) = Y.n)
        => /\ ~output_batch.is_none
           /\ Len(output_batch.data) = Len(X)
           /\ \A i \in 1..Len(output_batch.data) :
                  \A k \in 1..Len(output_batch.data[i]) :
                      output_batch.data[i][k].row = i

SecondOfPair ==
    /\ pc = "done"
    /\ ret.op = "update_output_names"
    /\ ret.upd.relation = "same"
    /\ ret.upd.in_a_row

\* C5: the second of two calls of update_output_names in a row with the same
\* target does not invoke get_output_names and leaves output_names as the
\* first call left them.
C5_CacheIdempotent ==
    SecondOfPair
        => /\ ret.upd.recomputed = 0
           /\ output_names = ret.upd.names_before

C5_Witness ==
    /\ SecondOfPair
    /\ output_names # NoNames
    /\ ret.upd.target.n >= 1
    /\ ret.upd.target.m = MaxTgt

\* C6: a call of update_output_names whose target (of at least one row)
\* differs by value from the target of the call before replaces the cache
\* and recomputes output_names, which then are the decoded tokens of the
\* target just given.
C6_DifferentTargetRecomputes ==
    (/\ pc = "done"
     /\ ret.op = "update_output_names"
     /\ ret.upd.relation = "differs"
     /\ ret.upd.target.n >= 1)
        => /\ ret.upd.recomputed = 1
           /\ array_equal(output, ret.upd.target)
           /\ output_names
                  = get_output_names(ret.upd.target, tokenizer, padding_side).val

\* The three places a start token is looked for, in the order of the claim.
StartCandidates ==
    <<config.decoder_start_token_id, config.bos_token_id,
      IF config.decoder.has THEN config.decoder.bos_token_id ELSE AbsentAttr>>

FirstSet == {i \in 1..3 : Present(StartCandidates[i])}

FirstStart ==
    StartCandidates[CHOOSE i \in FirstSet : \A j \in FirstSet : i <= j].val

EarlierErrors == {"TokenizerError", "ModelError", "IndexError"}

\* C7: for an encoder-decoder the decoder input of every chunk is, row by
\* row, the first of config.decoder_start_token_id, config.bos_token_id and
\* config.decoder.bos_token_id that is present and not None, followed by the
\* target ids unchanged; when none of the three is, no forward pass is made
\* and the call that reached the resolution ends in a ValueError.
C7_StartTokenResolution ==
    config.is_encoder_decoder
        => /\ obs.args.made
                => /\ FirstSet # {}
                   /\ \A i \in 1..Len(obs.args.decoder_input_ids) :
                          obs.args.decoder_input_ids[i]
                              = <<FirstStart>> \o Y.data[obs.rows[1] - 1 + i]
           /\ FirstSet = {}
                => /\ obs.forwards = 0
                   /\ pc \notin {"inference", "logodds"}
                   /\ (CallEnded /\ obs.chunks >= 1
                           /\ ret.exc \notin EarlierErrors)
                          => ret.status = "raised" /\ ret.exc = "ValueError"

C7_Witness ==
    /\ config.is_encoder_decoder
    /\ obs.args.made
    /\ FirstSet = {3}
    /\ config.bos_token_id = NullAttr
    /\ Len(obs.args.decoder_input_ids) = 2
    /\ Len(obs.args.decoder_input_ids[1]) = 3
    /\ obs.forwards = 1

OnesUpTo(mask, k) == Cardinality({j \in 1..k : mask[j] = 1})

\* C8: for a decoder the position id handed to the model is 0 wherever the
\* attention mask is 0 and the number of ones of the mask up to and with
\* that column, less one, wherever it is 1, on the pt and on the tf backend.
C8_PositionIds ==
    (~config.is_encoder_decoder /\ obs.args.made)
        => \A i \in 1..Len(obs.args.attention_mask) :
               /\ Len(obs.args.position_ids[i]) = Len(obs.args.attention_mask[i])
               /\ \A k \in 1..Len(obs.args.attention_mask[i]) :
                      obs.args.position_ids[i][k]
                          = IF obs.args.attention_mask[i][k] = 0 THEN 0
                            ELSE OnesUpTo(obs.args.attention_mask[i], k) - 1

C8_Witness ==
    /\ ~config.is_encoder_decoder
    /\ obs.args.made
    /\ similarity_model_type = "tf"
    /\ Len(obs.args.attention_mask) = 2
    /\ obs.args.attention_mask[1] = <<0, 1, 1>>
    /\ obs.args.position_ids[1] = <<0, 0, 1>>
    /\ obs.args.position_ids[2] = <<0, 1, 2>>

\* C9: for every chunk whose target has T >= 1 tokens, get_logodds applied
\* to the logits get_teacher_forced_logits returned gives one row per row of
\* the chunk and T columns, an empty tokenized source included.
C9_LogoddsShape ==
    (pc = "logodds" /\ obs.T >= 1)
        => LET g == get_logodds(logits, output, tokenizer, padding_side)
           IN  /\ g.exc = "none"
               /\ Len(g.logodds) = Len(obs.rows)
               /\ \A i \in 1..Len(g.logodds) : Len(g.logodds[i]) = obs.T

\* C10: for a decoder with a padded source of S columns and a target of
\* T >= 1 tokens, the logits kept are those of the T positions S-1 .. S+T-2,
\* and the log-odds of the j-th target token are read at position S+j-1
\* (j from 0) in the column of that token's id.
C10_DecoderOnlyWindow ==
    (~config.is_encoder_decoder /\ pc = "logodds" /\ obs.T >= 1)
        => LET g == get_logodds(logits, output, tokenizer, padding_side)
           IN  /\ logits.p = obs.T
               /\ g.exc = "none"
               /\ \A i \in 1..Len(g.logodds) :
                      \A j \in 1..Len(g.logodds[i]) :
                          g.logodds[i][j]
                              = [row |-> obs.rows[i], pos |-> obs.S + j - 2,
                                 col |-> Y.data[obs.rows[i]][j]]

(***************************************************************************)
(* SpecSizes: __call__ on X and target ids Y of as many rows under every    *)
(* batch_size the constructor accepts, 0 and negative ones included.  __call__ runs on the caller's thread, and   *)
(* the tokenizer, the wrapped function and the forward pass are taken to    *)
(* come back, by a return or by an exception: a turn of the loop that has   *)
(* been begun is carried on.                                                *)
(***************************************************************************)
InitSizes ==
    InitWith({BosConfig(e) : e \in BOOLEAN}, {"pt", "tf"}, {None}, {FALSE},
             (0 - MaxBatch)..MaxBatch, {[keep_prefix |-> 1, keep_suffix |-> 1]})

NextSizes == NextOn(EqualRows(Xs, IntYs), Xs)

Running == pc \in {"loop", "inference", "logodds"}

\* A __call__ that is running takes its next step.  Tokenize, Infer, Logodds
\* and Return are the steps possible while it runs, one of them is possible
\* at each of its positions, and each of them leaves the position.
Advance ==
    /\ Running
    /\ pc' \in {"loop", "inference", "logodds", "done"}
    /\ pc' # pc

SpecSizes == InitSizes /\ [][NextSizes]_vars /\ WF_pc(Advance)

\* A turn of the loop has come to its end: start_batch_idx += batch_size.
TurnDone == pc = "logodds" /\ pc' = "loop"

\* C11 (as stated): every __call__ that runs comes to an end, and every turn
\* of its loop leaves the start index strictly greater, below or at the end
\* of X, for every batch_size, 0 and negative ones included.
C11_StartIndexIncreases ==
    /\ Running ~> pc = "done"
    /\ [][TurnDone => start_batch_idx' > start_batch_idx]_vars

\* C11 (amended): every __call__ that runs comes to an end, by a return or
\* by an exception, for every batch_size.  With batch_size >= 1 every turn
\* of the loop adds batch_size to the start index, which stays below
\* len(X) + batch_size.  With batch_size <= 0 no turn does: the index stays
\* 0 or, after one turn with a negative batch_size, becomes batch_size, and
\* a call on a non-empty X then ends in an exception, never in a return.
C11_Terminates ==
    /\ Running ~> pc = "done"
    /\ [][TurnDone =>
            IF batch_size >= 1
            THEN /\ start_batch_idx' = start_batch_idx + batch_size
                 /\ start_batch_idx' > start_batch_idx
                 /\ start_batch_idx' < Len(X) + batch_size
            ELSE /\ batch_size < 0
                 /\ start_batch_idx = 0
                 /\ start_batch_idx' = batch_size]_vars
    /\ [](batch_size <= 0 /\ CallEnded /\ ret.status = "returned"
              => Len(X) = 0)

C11_Witness ==
    /\ batch_size < 0
    /\ CallEnded
    /\ ret.status = "raised"
    /\ start_batch_idx = batch_size
    /\ obs.chunks = 2
    /\ ~output_batch.is_none
    /\ Len(X) = MaxRows

====
